---- MODULE Spec2Model ----
(***************************************************************************)
(* next-run (src/index.js): the launcher and its dev session.              *)
(*                                                                         *)
(* main checks the arguments, or shows the menu when there are none, and   *)
(* calls devMode, buildMode or startMode; devMode asks for a port and a    *)
(* host it was not given.                                                  *)
(*                                                                         *)
(* devMode spawns the dev server child, starts the readiness prober        *)
(* (waitForPort), opens the browser when the port answers, and ends the    *)
(* invocation on a spawn error, on the child's exit or on SIGINT/SIGTERM.  *)
(*                                                                         *)
(* Time is the value of Date.now() in milliseconds.  Callbacks run one at  *)
(* a time (event loop); a callback queued with process.nextTick (the       *)
(* 'error' event of a failed spawn) runs before any timer, socket or       *)
(* signal callback.  Timers fire on schedule.                              *)
(***************************************************************************)
EXTENDS Integers, Sequences, FiniteSets, TLC

VARIABLES
  now,          \* Date.now()
  pc,           \* "init": nothing called yet; "dev": devMode ran; "probe": waitForPort called alone;
                \* "main": main not run yet; "menu", "port", "host", "custom": a prompt is open;
                \* "run": a build or start child was started from main; "exit": process.exit was called
  finalPort,    \* devMode: finalPort
  finalHost,    \* devMode: finalHost
  spawnCmd,     \* the command line handed to spawn() by devMode
  devProcess,   \* "none" | "failed" (error event queued) | "errored" (error event handled)
                \* | "alive" | "dead" (exit event queued)
  childCode,    \* code of the child's exit event: <<>> is null, <<c>> is c
  killed,       \* devProcess.kill() was called
  sigHandlers,  \* process.on('SIGINT'/'SIGTERM', shutdown) registered
  exitStatus,   \* <<>> while the invocation runs, <<c>> after process.exit(c)
  trace,        \* the SessionState values the session went through
  events,       \* session callbacks handled so far, in order
  logged,       \* the kinds of message reported so far
  probe,        \* waitForPort's promise: "idle" | "pending" | "resolved" | "rejected"
  probeHost,    \* host argument of waitForPort
  probePort,    \* port argument of waitForPort
  timeout,      \* timeout argument of waitForPort
  start,        \* waitForPort: start
  sock,         \* the probe socket of the current attempt: "none" | "open"
  sockStart,    \* when the current attempt called socket.connect
  sockLive,     \* whether a listener was bound when the attempt started
  attempts,     \* number of calls of check, counted up to MaxCounted
  timer,        \* the retry timer: "none" | "set"
  timerAt,      \* when the retry timer is due
  settledAt,    \* when the promise settled
  thenAttached, \* devMode attached its .then/.catch to the promise
  listening,    \* a listener is bound on (probeHost, probePort)
  boundAt,      \* when the listener was bound
  boundInFlight,\* the listener was bound while the probe was pending
  browser,      \* the browser child: "none" | "spawned" | "failed" (error event queued) | "errorLogged"
  browserUrl,   \* the url handed to openBrowser
  browserOpens, \* number of calls of openBrowser
  spawnCalls,   \* number of calls of spawn() for a server command (dev, build, start)
  kills,        \* number of calls of devProcess.kill()
  nSock,        \* number of probe sockets created and not destroyed
  nTimer,       \* number of retry timers set and not fired
  args,         \* process.argv.slice(2), as the flags and values main looks for
  isNext,       \* what isNextJsProject() returns in the working directory
  runCmd,       \* the command handed to spawn() by runBuildOrStartCommand
  runProcess,   \* its child: "none" | "failed" (error event queued) | "alive"
                \* | "dead" (exit event queued) | "exited" (exit event handled)
  runCode       \* code of that child's exit event: <<>> is null, <<c>> is c

sessionVars == <<finalPort, finalHost, spawnCmd, devProcess, childCode, killed,
                 sigHandlers, exitStatus, trace, events, logged, spawnCalls,
                 kills>>
probeVars   == <<probe, probeHost, probePort, timeout, start, sock, sockStart,
                 sockLive, attempts, timer, timerAt, settledAt, thenAttached,
                 nSock, nTimer>>
probeKept   == <<probe, probeHost, probePort, timeout, start, attempts, settledAt,
                 thenAttached>>
netVars     == <<listening, boundAt, boundInFlight>>
browserVars == <<browser, browserUrl, browserOpens>>
launchVars  == <<args, isNext, runCmd, runProcess, runCode>>
vars == <<now, pc, sessionVars, probeVars, netVars, browserVars, launchVars>>

----------------------------------------------------------------------------
(* Program constants *)

DefaultTimeout == 60000
interval == 200
SocketTimeoutMs == 200

(* Bounds *)

MaxCode == 1          \* child exit codes 0..MaxCode, and null
MaxCounted == 2       \* probe attempts are counted up to this number

\* The prober alone is followed in steps of half a retry interval, the
\* session in steps of one retry interval
Tick == interval \div 2

Timeouts == {0, 100, 150, 400, DefaultTimeout}
Requests == {<<4000, "127.0.0.1">>, <<1, "0.0.0.0">>, <<65535, "example.test">>}
ChildCodes == {<<>>} \cup {<<c>> : c \in 0..MaxCode}
Signals == {"SIGINT", "SIGTERM"}
SpawnOutcomes == {"ok", "error", "throw"}
BrowserOutcomes == {"ok", "error", "throw"}

----------------------------------------------------------------------------
(* Texts.  A string whose characters the program looks at (an argument     *)
(* value, a prompt answer) is a sequence of one-character strings.  The    *)
(* texts used have fewer than ten digits, so parseInt is exact.            *)

Digits == <<"0", "1", "2", "3", "4", "5", "6", "7", "8", "9">>
IsDigit(c) == \E i \in 1..Len(Digits) : Digits[i] = c
DigitValue(c) == (CHOOSE i \in 1..Len(Digits) : Digits[i] = c) - 1

\* /^\d+$/.test(t) (line 344)
allDigits(t) == Len(t) > 0 /\ \A i \in 1..Len(t) : IsDigit(t[i])

RECURSIVE trimStart(_)
trimStart(t) == IF t # <<>> /\ t[1] = " " THEN trimStart(Tail(t)) ELSE t

RECURSIVE trimEnd(_)
trimEnd(t) ==
  IF t # <<>> /\ t[Len(t)] = " " THEN trimEnd(SubSeq(t, 1, Len(t) - 1)) ELSE t

\* String.prototype.trim (lines 179, 181, 359)
trim(t) == trimEnd(trimStart(t))

RECURSIVE digitPrefix(_)
digitPrefix(t) ==
  IF t # <<>> /\ IsDigit(t[1]) THEN <<t[1]>> \o digitPrefix(Tail(t)) ELSE <<>>

RECURSIVE decimal(_)
decimal(d) ==
  IF d = <<>> THEN 0
  ELSE 10 * decimal(SubSeq(d, 1, Len(d) - 1)) + DigitValue(d[Len(d)])

\* parseInt(t, 10) (lines 200, 205, 348): leading blanks and a sign are
\* skipped, the digits that follow are read, what comes after them is
\* ignored; <<>> is NaN, <<n>> is the number n
parseInt(t) ==
  LET u == trimStart(t)
      signed == u # <<>> /\ u[1] \in {"-", "+"}
      d == digitPrefix(IF signed THEN Tail(u) ELSE u)
  IN  IF d = <<>> THEN <<>>
      ELSE IF signed /\ u[1] = "-" THEN <<0 - decimal(d)>>
      ELSE <<decimal(d)>>

\* The string of a text, as it is put into a command line or a url
RECURSIVE str(_)
str(t) == IF t = <<>> THEN "" ELSE t[1] \o str(Tail(t))

\* The value main finds after --port or --host (lines 336-340): null when the
\* flag is not given, undefined when the flag is the last argument
Absent == [kind |-> "absent", text |-> <<>>]
Undefined == [kind |-> "undefined", text |-> <<>>]
Given(t) == [kind |-> "text", text |-> t]

\* String(v), as RegExp.prototype.test converts its argument (line 344)
String(v) ==
  IF v.kind = "undefined" THEN <<"u", "n", "d", "e", "f", "i", "n", "e", "d">>
  ELSE v.text

\* devMode(port = null, host = null) (line 186): the null port and the null
\* host, values that no accepted port or host has
NoPort == -1
NoHost == ""

PortTexts == { <<"4", "0", "0", "0">>, <<"1">>, <<"0">>,
               <<"6", "5", "5", "3", "5">>, <<"6", "5", "5", "3", "6">>,
               <<"1", "2", "a", "b", "c">>, <<"-", "5">>, <<>> }
HostTexts == { <<"1", "2", "7", ".", "0", ".", "0", ".", "1">>,
               <<"0", ".", "0", ".", "0", ".", "0">>,
               <<" ", "m", "y", ".", "h", "o", "s", "t", " ">>,
               <<" ">>, <<>> }
PortValues == {Absent, Undefined} \cup {Given(t) : t \in PortTexts}
HostValues == {Absent, Undefined} \cup {Given(t) : t \in HostTexts}

\* process.argv.slice(2), as far as main looks at it: which flags are among
\* the arguments, the values after --port and --host, and whether there is
\* any other argument
ArgLists == [help : BOOLEAN, version : BOOLEAN, dev : BOOLEAN, build : BOOLEAN,
             start : BOOLEAN, other : BOOLEAN, port : PortValues,
             host : HostValues]

\* The arguments of a dev session that is asked for its port and host
DevArgs == [help |-> FALSE, version |-> FALSE, dev |-> TRUE, build |-> FALSE,
            start |-> FALSE, other |-> FALSE, port |-> Absent, host |-> Absent]

----------------------------------------------------------------------------
(* Values *)

\* code || 1 in the place of code || 0
OrOne(code) == IF code = <<>> \/ code = <<0>> THEN 1 ELSE code[1]

\* code || 0 (line 252): null and 0 give 0
OrZero(code) == IF code = <<>> THEN 0 ELSE code[1]

\* code || 1 (line 153): null and 0 give 1
codeOrOne(code) == IF code = <<>> \/ code = <<0>> THEN 1 ELSE code[1]

\* code !== 0 (line 249): true of null and of every non-zero code
NotStrictlyZero(code) == code # <<0>>

\* devMode, line 212
displayHost(h) == IF h = "0.0.0.0" THEN "localhost" ELSE h

\* devMode, line 213
url(h, p) == "http://" \o displayHost(h) \o ":" \o ToString(p)

\* The host handed to waitForPort as it was requested
probeTargetAsRequested(h) == h

\* devMode, line 229: the host handed to waitForPort
probeTarget(h) == IF h = "0.0.0.0" THEN "localhost" ELSE h

\* devMode, line 218
devCommand(h, p) == "npx next dev --port " \o ToString(p) \o " --hostname " \o h

\* The SessionState of the session controller: the last state it went through
SessionState == trace[Len(trace)]

\* The invocation is running and no process.nextTick callback is queued:
\* the event loop may run a timer, socket or signal callback.
LoopReady ==
  /\ exitStatus = <<>>
  /\ devProcess # "failed"
  /\ browser # "failed"

\* socket.destroy() (lines 50, 55, 60)
destroy ==
  /\ sock' = "none"
  /\ sockStart' = 0
  /\ sockLive' = FALSE
  /\ nSock' = nSock - 1

\* process.exit(code): the invocation ends, and its sockets and timers with it
ProcessExit(code) ==
  /\ exitStatus' = <<code>>
  /\ sock' = "none"
  /\ sockStart' = 0
  /\ sockLive' = FALSE
  /\ nSock' = 0
  /\ timer' = "none"
  /\ timerAt' = 0
  /\ nTimer' = 0

----------------------------------------------------------------------------
(* Readiness prober: waitForPort *)

\* check (lines 44-65): a new socket, connecting
check ==
  /\ sock' = "open"
  /\ sockStart' = now
  /\ sockLive' = listening
  /\ nSock' = nSock + 1
  /\ attempts' = IF attempts < MaxCounted THEN attempts + 1 ELSE attempts

\* openBrowser (lines 79-97); o is what spawn() of the platform command does
openBrowser(u, o) ==
  /\ browserOpens' = browserOpens + 1
  /\ browserUrl' = u
  /\ browser' = CASE o = "ok" -> "spawned"
                  [] o = "error" -> "failed"
                  [] OTHER -> browser

\* devMode's .then callback (lines 230-233); a throw of openBrowser lands in
\* the .catch callback of the same chain (lines 234-236)
devThen(o) ==
  /\ openBrowser(url(finalHost, finalPort), o)
  /\ logged' = logged \cup {"opening"} \cup (IF o = "throw" THEN {"probeWarn"} ELSE {})
  /\ events' = Append(events, "probeReady")

\* A .catch callback that opens the browser all the same
devCatchOpensBrowser ==
  /\ logged' = logged \cup {"probeWarn"}
  /\ events' = Append(events, "probeTimeout")
  /\ openBrowser(url(finalHost, finalPort), "ok")

\* devMode's .catch callback (lines 234-236)
devCatch ==
  /\ logged' = logged \cup {"probeWarn"}
  /\ events' = Append(events, "probeTimeout")
  /\ UNCHANGED browserVars

\* tryAgain giving up as soon as the timeout is reached (>= for >)
tryAgainAtTimeout ==
  IF now - start >= timeout
  THEN /\ probe' = "rejected"
       /\ settledAt' = now
       /\ UNCHANGED <<timer, timerAt, nTimer>>
       /\ IF thenAttached THEN devCatch
                          ELSE UNCHANGED <<logged, events, browserVars>>
  ELSE /\ timer' = "set"
       /\ nTimer' = nTimer + 1
       /\ timerAt' = now + interval
       /\ UNCHANGED <<probe, settledAt, logged, events, browserVars>>

\* tryAgain retrying after twice the interval
tryAgainSlowRetry ==
  IF now - start > timeout
  THEN /\ probe' = "rejected"
       /\ settledAt' = now
       /\ UNCHANGED <<timer, timerAt, nTimer>>
       /\ IF thenAttached THEN devCatch
                          ELSE UNCHANGED <<logged, events, browserVars>>
  ELSE /\ timer' = "set"
       /\ nTimer' = nTimer + 1
       /\ timerAt' = now + 2 * interval
       /\ UNCHANGED <<probe, settledAt, logged, events, browserVars>>

\* tryAgain without the return after reject: it rejects and retries
tryAgainRejectsAndRetries ==
  IF now - start > timeout
  THEN /\ probe' = "rejected"
       /\ settledAt' = now
       /\ timer' = "set"
       /\ nTimer' = nTimer + 1
       /\ timerAt' = now + interval
       /\ IF thenAttached THEN devCatch
                          ELSE UNCHANGED <<logged, events, browserVars>>
  ELSE /\ timer' = "set"
       /\ nTimer' = nTimer + 1
       /\ timerAt' = now + interval
       /\ UNCHANGED <<probe, settledAt, logged, events, browserVars>>

\* tryAgain (lines 67-73)
tryAgain ==
  IF now - start > timeout
  THEN /\ probe' = "rejected"
       /\ settledAt' = now
       /\ UNCHANGED <<timer, timerAt, nTimer>>
       /\ IF thenAttached THEN devCatch
                          ELSE UNCHANGED <<logged, events, browserVars>>
  ELSE /\ timer' = "set"
       /\ nTimer' = nTimer + 1
       /\ timerAt' = now + interval
       /\ UNCHANGED <<probe, settledAt, logged, events, browserVars>>

\* waitForPort (lines 39-77): the promise executor
waitForPort(p, h, t) ==
  /\ probe' = "pending"
  /\ probePort' = p
  /\ probeHost' = h
  /\ timeout' = t
  /\ start' = now
  /\ check
  /\ UNCHANGED <<timer, timerAt, nTimer, settledAt>>

\* socket 'connect' (lines 49-52), then the promise's continuation
SocketConnect ==
  /\ LoopReady
  /\ sock = "open"
  /\ listening
  /\ destroy
  /\ probe' = "resolved"
  /\ settledAt' = now
  /\ \E o \in BrowserOutcomes :
       IF thenAttached THEN devThen(o)
                       ELSE UNCHANGED <<logged, events, browserVars>>
  /\ UNCHANGED <<launchVars, spawnCalls, kills>>
  /\ UNCHANGED <<now, pc, finalPort, finalHost, spawnCmd, devProcess, childCode,
                 killed, sigHandlers, exitStatus, trace, probeHost, probePort,
                 timeout, start, attempts, timer, timerAt, nTimer, thenAttached,
                 netVars>>

\* A 'timeout' handler that retries without destroying its socket
SocketTimeoutKeepsSocket ==
  /\ LoopReady
  /\ sock = "open"
  /\ now >= sockStart + SocketTimeoutMs
  /\ tryAgain
  /\ UNCHANGED <<sock, sockStart, sockLive, nSock>>
  /\ UNCHANGED <<launchVars, spawnCalls, kills>>
  /\ UNCHANGED <<now, pc, finalPort, finalHost, spawnCmd, devProcess, childCode,
                 killed, sigHandlers, exitStatus, trace, probeHost, probePort,
                 timeout, start, attempts, thenAttached, netVars>>

\* socket 'timeout' (lines 54-57), 200 ms after the attempt started
SocketTimeout ==
  /\ LoopReady
  /\ sock = "open"
  /\ now >= sockStart + SocketTimeoutMs
  /\ destroy
  /\ tryAgain
  /\ UNCHANGED <<launchVars, spawnCalls, kills>>
  /\ UNCHANGED <<now, pc, finalPort, finalHost, spawnCmd, devProcess, childCode,
                 killed, sigHandlers, exitStatus, trace, probeHost, probePort,
                 timeout, start, attempts, thenAttached, netVars>>

\* socket 'error' (lines 59-62): the connection was refused or could not be made
SocketError ==
  /\ LoopReady
  /\ sock = "open"
  /\ ~sockLive
  /\ destroy
  /\ tryAgain
  /\ UNCHANGED <<launchVars, spawnCalls, kills>>
  /\ UNCHANGED <<now, pc, finalPort, finalHost, spawnCmd, devProcess, childCode,
                 killed, sigHandlers, exitStatus, trace, probeHost, probePort,
                 timeout, start, attempts, thenAttached, netVars>>

\* setTimeout(check, interval) fires (line 72)
RetryTimer ==
  /\ LoopReady
  /\ timer = "set"
  /\ now >= timerAt
  /\ timer' = "none"
  /\ timerAt' = 0
  /\ nTimer' = nTimer - 1
  /\ check
  /\ UNCHANGED launchVars
  /\ UNCHANGED <<now, pc, sessionVars, probe, probeHost, probePort, timeout,
                 start, settledAt, thenAttached, netVars, browserVars>>

----------------------------------------------------------------------------
(* Environment *)

\* Some process binds a listener on the probed port
ListenerBind ==
  /\ LoopReady
  /\ ~listening
  /\ listening' = TRUE
  /\ boundAt' = now
  /\ boundInFlight' = (probe = "pending")
  /\ UNCHANGED launchVars
  /\ UNCHANGED <<now, pc, sessionVars, probeVars, browserVars>>

\* The clock moves on by d ms.  Date.now() is read by waitForPort only, so it
\* is followed while a probe is pending.  It does not pass a due timer, and an
\* attempt made against a bound listener connects before its 200 ms are over.
Advance(d) ==
  /\ LoopReady
  /\ probe = "pending"
  /\ sock = "open" => now + d <= sockStart + SocketTimeoutMs
  /\ (sock = "open" /\ sockLive) => now + d < sockStart + SocketTimeoutMs
  /\ timer = "set" => now + d <= timerAt
  /\ now' = now + d
  /\ UNCHANGED launchVars
  /\ UNCHANGED <<pc, sessionVars, probeVars, netVars, browserVars>>

----------------------------------------------------------------------------
(* The prober alone: waitForPort(port, host, timeout) with any timeout *)

ProbeCall ==
  /\ pc = "init"
  /\ pc' = "probe"
  /\ waitForPort(finalPort, finalHost, timeout)
  /\ UNCHANGED launchVars
  /\ UNCHANGED <<now, sessionVars, thenAttached, netVars, browserVars>>

\* Nothing has been spawned, probed or reported yet
Fresh ==
  /\ now = 0
  /\ spawnCmd = ""
  /\ devProcess = "none"
  /\ childCode = <<>>
  /\ killed = FALSE
  /\ sigHandlers = FALSE
  /\ exitStatus = <<>>
  /\ trace = <<"Starting">>
  /\ events = <<>>
  /\ logged = {}
  /\ probe = "idle"
  /\ probeHost = ""
  /\ probePort = 0
  /\ start = 0
  /\ sock = "none"
  /\ sockStart = 0
  /\ sockLive = FALSE
  /\ attempts = 0
  /\ timer = "none"
  /\ timerAt = 0
  /\ settledAt = 0
  /\ thenAttached = FALSE
  /\ listening = FALSE
  /\ boundAt = 0
  /\ boundInFlight = FALSE
  /\ browser = "none"
  /\ browserUrl = ""
  /\ browserOpens = 0
  /\ spawnCalls = 0
  /\ kills = 0
  /\ nSock = 0
  /\ nTimer = 0
  /\ runCmd = ""
  /\ runProcess = "none"
  /\ runCode = <<>>

\* devMode has its port and host, in a Next.js project
InitCommon ==
  /\ pc = "init"
  /\ \E r \in Requests : finalPort = r[1] /\ finalHost = r[2]
  /\ args = DevArgs
  /\ isNext = TRUE
  /\ Fresh

ProbeInit == InitCommon /\ timeout \in Timeouts

ProbeNext ==
  \/ ProbeCall
  \/ SocketConnect
  \/ SocketTimeout
  \/ SocketError
  \/ RetryTimer
  \/ ListenerBind
  \/ Advance(Tick)

ProbeSpec == ProbeInit /\ [][ProbeNext]_vars

----------------------------------------------------------------------------
(* Session controller: devMode, from the spawn on (lines 212-253) *)

\* devMode: spawn returned a child handle.  The handlers are registered and
\* the prober is started in the same synchronous run (lines 223-253).
devStarted(o, p, h) ==
  /\ devProcess' = IF o = "ok" THEN "alive" ELSE "failed"
  /\ trace' = IF o = "ok" THEN Append(trace, "Running") ELSE trace
  /\ waitForPort(p, probeTarget(h), DefaultTimeout)
  /\ thenAttached' = TRUE
  /\ sigHandlers' = TRUE
  /\ UNCHANGED <<exitStatus, events>>

\* The async IIFE's .catch (lines 394-397): devMode's promise rejected
topLevelCatch ==
  /\ logged' = logged \cup {"starting", "running", "unexpected"}
  /\ events' = Append(events, "throw")
  /\ trace' = Append(trace, "Exited")
  /\ ProcessExit(1)

\* devMode from the point where finalPort = p and finalHost = h are known
\* (lines 212-253); o is what spawn() does: a child, an 'error' event queued
\* with process.nextTick, or an exception thrown by spawn() itself
devMode(p, h) ==
  /\ pc' = "dev"
  /\ finalPort' = p
  /\ finalHost' = h
  /\ spawnCmd' = devCommand(h, p)
  /\ spawnCalls' = spawnCalls + 1
  /\ \E o \in SpawnOutcomes :
       IF o = "throw"
       THEN /\ topLevelCatch
            /\ UNCHANGED <<devProcess, sigHandlers, probeKept>>
       ELSE /\ devStarted(o, p, h)
            /\ logged' = logged \cup {"starting", "running"}
  /\ UNCHANGED <<now, childCode, killed, kills, netVars, browserVars>>

\* devMode(port, host) called with both its port and its host
DevMode ==
  /\ pc = "init"
  /\ devMode(finalPort, finalHost)
  /\ UNCHANGED launchVars

\* The 'error' handler reporting the failure without ending the invocation
SpawnErrorHandlerLogsOnly ==
  /\ exitStatus = <<>>
  /\ devProcess = "failed"
  /\ devProcess' = "errored"
  /\ logged' = logged \cup {"spawnFailed"}
  /\ events' = Append(events, "error")
  /\ UNCHANGED <<launchVars, spawnCalls, kills>>
  /\ UNCHANGED <<now, pc, finalPort, finalHost, spawnCmd, childCode, killed,
                 sigHandlers, exitStatus, trace, probeVars, netVars, browserVars>>

\* The 'error' handler exiting with status 0
SpawnErrorHandlerExitsZero ==
  /\ exitStatus = <<>>
  /\ devProcess = "failed"
  /\ devProcess' = "errored"
  /\ logged' = logged \cup {"spawnFailed"}
  /\ events' = Append(events, "error")
  /\ trace' = Append(trace, "Exited")
  /\ ProcessExit(0)
  /\ UNCHANGED <<launchVars, spawnCalls, kills>>
  /\ UNCHANGED <<now, pc, finalPort, finalHost, spawnCmd, childCode,
                 killed, sigHandlers, probeKept, netVars, browserVars>>

\* devProcess 'error' (lines 223-226)
SpawnErrorHandler ==
  /\ exitStatus = <<>>
  /\ devProcess = "failed"
  /\ devProcess' = "errored"
  /\ logged' = logged \cup {"spawnFailed"}
  /\ events' = Append(events, "error")
  /\ trace' = Append(trace, "Exited")
  /\ ProcessExit(1)
  /\ UNCHANGED <<launchVars, spawnCalls, kills>>
  /\ UNCHANGED <<now, pc, finalPort, finalHost, spawnCmd, childCode,
                 killed, sigHandlers, probeKept, netVars, browserVars>>

\* shutdown reporting the interruption as a failure
shutdownExitsOne ==
  /\ logged' = logged \cup {"shutdown"}
  /\ killed' = TRUE
  /\ kills' = kills + 1
  /\ trace' = trace \o <<"ShuttingDown", "Exited">>
  /\ ProcessExit(1)

\* shutdown that waits for the child's exit event instead of exiting
shutdownWaitsForChild ==
  /\ logged' = logged \cup {"shutdown"}
  /\ killed' = TRUE
  /\ kills' = kills + 1
  /\ trace' = Append(trace, "ShuttingDown")
  /\ UNCHANGED <<exitStatus, sock, sockStart, sockLive, nSock, timer, timerAt,
                 nTimer>>

\* shutdown (lines 239-243), the SIGINT and SIGTERM handler
shutdown ==
  /\ logged' = logged \cup {"shutdown"}
  /\ killed' = TRUE
  /\ kills' = kills + 1
  /\ trace' = trace \o <<"ShuttingDown", "Exited">>
  /\ ProcessExit(0)

\* SIGINT or SIGTERM is delivered to the invocation (lines 245-246)
Signal ==
  /\ LoopReady
  /\ sigHandlers
  /\ \E sig \in Signals : events' = Append(events, sig)
  /\ shutdown
  /\ UNCHANGED <<launchVars, spawnCalls>>
  /\ UNCHANGED <<now, pc, finalPort, finalHost, spawnCmd, devProcess, childCode,
                 sigHandlers, probeKept, netVars, browserVars>>

\* An 'exit' handler that also calls devProcess.kill()
ExitHandlerKills ==
  /\ LoopReady
  /\ devProcess = "dead"
  /\ killed' = TRUE
  /\ kills' = kills + 1
  /\ logged' = IF NotStrictlyZero(childCode) THEN logged \cup {"devExitWarn"}
                                             ELSE logged
  /\ events' = Append(events, "exit")
  /\ trace' = Append(trace, "Exited")
  /\ ProcessExit(OrZero(childCode))
  /\ UNCHANGED <<launchVars, spawnCalls>>
  /\ UNCHANGED <<now, pc, finalPort, finalHost, spawnCmd, devProcess, childCode,
                 sigHandlers, probeKept, netVars, browserVars>>

\* The 'exit' handler of runBuildOrStartCommand in the place of devMode's:
\* after an exit event with code 0 the invocation goes on
ExitHandlerAsRunExit ==
  /\ LoopReady
  /\ devProcess = "dead"
  /\ devProcess' = "exited"
  /\ events' = Append(events, "exit")
  /\ IF NotStrictlyZero(childCode)
     THEN /\ logged' = logged \cup {"devExitWarn"}
          /\ trace' = Append(trace, "Exited")
          /\ ProcessExit(codeOrOne(childCode))
     ELSE UNCHANGED <<logged, trace, exitStatus, sock, sockStart, sockLive,
                      nSock, timer, timerAt, nTimer>>
  /\ UNCHANGED <<launchVars, spawnCalls, kills>>
  /\ UNCHANGED <<now, pc, finalPort, finalHost, spawnCmd, childCode,
                 killed, sigHandlers, probeKept, netVars, browserVars>>

\* An 'exit' handler that ends the session without process.exit: the
\* prober's callbacks still run
ExitHandlerDefersExit ==
  /\ LoopReady
  /\ devProcess = "dead"
  /\ devProcess' = "exited"
  /\ logged' = IF NotStrictlyZero(childCode) THEN logged \cup {"devExitWarn"}
                                             ELSE logged
  /\ events' = Append(events, "exit")
  /\ trace' = Append(trace, "Exited")
  /\ UNCHANGED <<launchVars, spawnCalls, kills>>
  /\ UNCHANGED <<now, pc, finalPort, finalHost, spawnCmd, childCode,
                 killed, sigHandlers, exitStatus, probeVars, netVars, browserVars>>

\* devProcess 'exit' (lines 248-253)
ExitHandler ==
  /\ LoopReady
  /\ devProcess = "dead"
  /\ logged' = IF NotStrictlyZero(childCode) THEN logged \cup {"devExitWarn"}
                                             ELSE logged
  /\ events' = Append(events, "exit")
  /\ trace' = Append(trace, "Exited")
  /\ ProcessExit(OrZero(childCode))
  /\ UNCHANGED <<launchVars, spawnCalls, kills>>
  /\ UNCHANGED <<now, pc, finalPort, finalHost, spawnCmd, devProcess, childCode,
                 killed, sigHandlers, probeKept, netVars, browserVars>>

\* openBrowser without an 'error' listener: the event is thrown and ends the
\* invocation with status 1
BrowserErrorUnhandled ==
  /\ exitStatus = <<>>
  /\ devProcess # "failed"
  /\ browser = "failed"
  /\ browser' = "errorLogged"
  /\ logged' = logged \cup {"uncaught"}
  /\ events' = Append(events, "browserError")
  /\ trace' = Append(trace, "Exited")
  /\ ProcessExit(1)
  /\ UNCHANGED <<launchVars, spawnCalls, kills>>
  /\ UNCHANGED <<now, pc, finalPort, finalHost, spawnCmd, devProcess, childCode,
                 killed, sigHandlers, probeKept, netVars, browserUrl, browserOpens>>

\* openBrowser's child 'error' (lines 93-96): logged at debug level
BrowserErrorHandler ==
  /\ exitStatus = <<>>
  /\ devProcess # "failed"
  /\ browser = "failed"
  /\ browser' = "errorLogged"
  /\ logged' = logged \cup {"browserDebug"}
  /\ events' = Append(events, "browserError")
  /\ UNCHANGED <<launchVars, spawnCalls, kills>>
  /\ UNCHANGED <<now, pc, finalPort, finalHost, spawnCmd, devProcess, childCode,
                 killed, sigHandlers, exitStatus, trace, probeVars, netVars,
                 browserUrl, browserOpens>>

\* The dev server child ends on its own: with an exit code, or by a signal
\* (its exit event then carries code null)
ChildDies ==
  /\ LoopReady
  /\ devProcess = "alive"
  /\ devProcess' = "dead"
  /\ childCode' \in ChildCodes
  /\ UNCHANGED <<launchVars, spawnCalls, kills>>
  /\ UNCHANGED <<now, pc, finalPort, finalHost, spawnCmd, killed, sigHandlers,
                 exitStatus, trace, events, logged, probeVars, netVars, browserVars>>

Init == InitCommon /\ timeout = DefaultTimeout

Next ==
  \/ DevMode
  \/ SpawnErrorHandler
  \/ Signal
  \/ ExitHandler
  \/ BrowserErrorHandler
  \/ ChildDies
  \/ SocketConnect
  \/ SocketTimeout
  \/ SocketError
  \/ RetryTimer
  \/ ListenerBind
  \/ Advance(interval)

Spec == Init /\ [][Next]_vars

\* The event loop keeps running callbacks: devMode is entered, and a callback
\* queued with process.nextTick is run
FairSpec == Spec /\ WF_vars(DevMode) /\ WF_vars(SpawnErrorHandler)

\* The prober alone, with the event loop running every callback that is due
\* and time passing
FairProbeSpec ==
  /\ ProbeSpec
  /\ WF_vars(ProbeCall)
  /\ WF_vars(SocketConnect)
  /\ WF_vars(SocketTimeout)
  /\ WF_vars(SocketError)
  /\ WF_vars(RetryTimer)
  /\ WF_vars(Advance(Tick))

----------------------------------------------------------------------------
(* The launcher: main, the menu, devMode's prompts, build and start modes *)

\* What a step of the launcher leaves alone unless it reaches devMode's spawn
quiet ==
  UNCHANGED <<now, spawnCmd, devProcess, childCode, killed, sigHandlers, trace,
              events, kills, probeKept, netVars, browserVars, args, isNext,
              runCode>>

noSpawn == UNCHANGED <<spawnCalls, runCmd, runProcess>>

\* The messages msgs are reported and process.exit(code) is called
exitWith(code, msgs) ==
  /\ pc' = "exit"
  /\ logged' = logged \cup msgs
  /\ ProcessExit(code)
  /\ quiet
  /\ UNCHANGED <<finalPort, finalHost>>

\* The messages msgs are reported and the invocation waits: for the answer to
\* a prompt, or for the events of its child
await(label, msgs) ==
  /\ pc' = label
  /\ logged' = logged \cup msgs
  /\ UNCHANGED <<exitStatus, sock, sockStart, sockLive, nSock, timer, timerAt,
                 nTimer>>
  /\ quiet

\* runBuildOrStartCommand (lines 146-155); o is what spawn() does
runBuildOrStartCommand(cmd, o) ==
  /\ runCmd' = cmd
  /\ spawnCalls' = spawnCalls + 1
  /\ runProcess' = CASE o = "ok" -> "alive"
                     [] o = "error" -> "failed"
                     [] OTHER -> runProcess

\* buildMode (lines 256-260): its command and what it reports; line 259 is
\* reached as soon as spawn() has returned
buildMode(o) ==
  [cmd |-> "npm run build",
   msgs |-> {"building"} \cup (IF o = "throw" THEN {} ELSE {"buildSuccess"})]

\* startMode (lines 262-265)
startMode(o) == [cmd |-> "npm start", msgs |-> {"startingProduction"}]

\* A call m of buildMode or startMode: from the menu it is followed by
\* process.exit(0) (lines 297-304), from main by the end of main (lines
\* 389-393); an exception of spawn() lands in main's .catch (lines 394-397)
runMode(m, o, fromMenu) ==
  /\ runBuildOrStartCommand(m.cmd, o)
  /\ IF o = "throw" THEN exitWith(1, m.msgs \cup {"unexpected"})
     ELSE IF fromMenu THEN exitWith(0, m.msgs)
     ELSE await("run", m.msgs) /\ UNCHANGED <<finalPort, finalHost>>

\* devMode(port, host) up to its spawn (lines 186-210): a null port is asked
\* for, then a null host
devModeEnter(p, h) ==
  IF p = NoPort
  THEN await("port", {}) /\ finalPort' = p /\ finalHost' = h /\ noSpawn
  ELSE IF h = NoHost
  THEN await("host", {}) /\ finalPort' = p /\ finalHost' = h /\ noSpawn
  ELSE devMode(p, h) /\ UNCHANGED launchVars

\* showMenu up to its prompt (lines 269-291)
showMenu ==
  IF ~isNext
  THEN exitWith(1, {"notNext"}) /\ noSpawn
  ELSE await("menu", {"title"}) /\ UNCHANGED <<finalPort, finalHost>> /\ noSpawn

\* args.length === 0 (line 326)
NoArgs == [help |-> FALSE, version |-> FALSE, dev |-> FALSE, build |-> FALSE,
           start |-> FALSE, other |-> FALSE, port |-> Absent, host |-> Absent]

\* portValue !== null, hostValue !== null (lines 345, 358)
hasPort == args.port.kind # "absent"
hasHost == args.host.kind # "absent"

\* A range check that lets 0 and 65536 through
portOutOfRangeLoose(n) == n < 0 \/ n > 65536

\* parsedPort <= 0 || parsedPort >= 65536 (line 349)
portOutOfRange(n) == n <= 0 \/ n >= 65536

\* modes.length (line 372)
modes == (IF args.dev THEN 1 ELSE 0) + (IF args.build THEN 1 ELSE 0)
           + (IF args.start THEN 1 ELSE 0)

\* A check of the number of modes that never objects
tooManyModesNever(n) == FALSE

\* modes.length > 1 (line 377)
tooManyModes(n) == n > 1

\* main's checks in their order (lines 343-385): the first one that fails,
\* "throw" for the TypeError of undefined.trim(), or "ok"
mainCheck ==
  IF hasPort /\ ~allDigits(String(args.port)) THEN "portNotNumber"
  ELSE IF hasPort /\ portOutOfRange(parseInt(String(args.port))[1]) THEN "portRange"
  ELSE IF args.host.kind = "undefined" THEN "throw"
  ELSE IF hasHost /\ trim(args.host.text) = <<>> THEN "hostMissing"
  ELSE IF (hasPort \/ hasHost) /\ ~args.dev THEN "onlyWithDev"
  ELSE IF modes = 0 THEN "noMode"
  ELSE IF tooManyModes(modes) THEN "manyModes"
  ELSE IF ~isNext THEN "notNext"
  ELSE "ok"

\* parsedPort and parsedHost (lines 343-365)
parsedPort == IF hasPort THEN parseInt(String(args.port))[1] ELSE NoPort
parsedHost == IF hasHost THEN str(trim(args.host.text)) ELSE NoHost

\* The async IIFE (lines 318-393), up to its first await or its end
Main ==
  /\ pc = "main"
  /\ IF args.help THEN exitWith(0, {"help"}) /\ noSpawn
     ELSE IF args.version THEN exitWith(0, {"version"}) /\ noSpawn
     ELSE IF args = NoArgs THEN showMenu
     ELSE IF mainCheck = "throw" THEN exitWith(1, {"unexpected"}) /\ noSpawn
     ELSE IF mainCheck # "ok" THEN exitWith(1, {mainCheck}) /\ noSpawn
     ELSE IF args.dev THEN devModeEnter(parsedPort, parsedHost)
     ELSE \E o \in SpawnOutcomes :
            runMode(IF args.build THEN buildMode(o) ELSE startMode(o), o, FALSE)

\* The menu's answer and showMenu's switch (lines 293-311)
MenuChoice ==
  /\ pc = "menu"
  /\ \E action \in {"dev", "build", "start", "help", "exit"} :
       IF action = "dev" THEN devModeEnter(NoPort, NoHost)
       ELSE IF action = "build"
       THEN \E o \in SpawnOutcomes : runMode(buildMode(o), o, TRUE)
       ELSE IF action = "start"
       THEN \E o \in SpawnOutcomes : runMode(startMode(o), o, TRUE)
       ELSE IF action = "help" THEN exitWith(0, {"help"}) /\ noSpawn
       ELSE exitWith(0, {"goodbye"}) /\ noSpawn

\* validate of the port prompt (lines 199-202)
promptPortValid(t) ==
  LET num == parseInt(t) IN num # <<>> /\ num[1] > 0 /\ num[1] < 65536

\* The port prompt is answered (lines 193-205): an answer that validate
\* turns down is asked for again
PortAnswer ==
  /\ pc = "port"
  /\ \E t \in PortTexts :
       IF promptPortValid(t)
       THEN devModeEnter(parseInt(t)[1], finalHost)
       ELSE await("port", {"portMustBe"}) /\ UNCHANGED <<finalPort, finalHost>>
            /\ noSpawn

\* selectHost's list is answered (lines 158-169, 183)
HostChoice ==
  /\ pc = "host"
  /\ \E hostChoice \in {"127.0.0.1", "0.0.0.0", "custom"} :
       IF hostChoice = "custom"
       THEN await("custom", {}) /\ UNCHANGED <<finalPort, finalHost>> /\ noSpawn
       ELSE devModeEnter(finalPort, hostChoice)

\* selectHost's custom host prompt is answered (lines 171-181)
CustomHostAnswer ==
  /\ pc = "custom"
  /\ \E t \in HostTexts :
       IF trim(t) # <<>>
       THEN devModeEnter(finalPort, str(trim(t)))
       ELSE await("custom", {"hostCannotBeEmpty"})
            /\ UNCHANGED <<finalPort, finalHost>> /\ noSpawn

\* The 'error' handler of runBuildOrStartCommand (lines 148-151)
RunErrorHandler ==
  /\ exitStatus = <<>>
  /\ runProcess = "failed"
  /\ runProcess' = "errored"
  /\ exitWith(1, {"commandFailed"})
  /\ UNCHANGED <<spawnCalls, runCmd>>

\* The build or start child ends: with an exit code, or by a signal
RunChildDies ==
  /\ exitStatus = <<>>
  /\ runProcess = "alive"
  /\ runProcess' = "dead"
  /\ runCode' \in ChildCodes
  /\ UNCHANGED <<now, pc, sessionVars, probeVars, netVars, browserVars, args,
                 isNext, runCmd>>

\* The 'exit' handler of runBuildOrStartCommand (lines 152-154).  After an
\* exit event with code 0 nothing is left to wait for and the invocation
\* ends with status 0.
RunExitHandler ==
  /\ exitStatus = <<>>
  /\ runProcess = "dead"
  /\ runProcess' = "exited"
  /\ IF NotStrictlyZero(runCode) THEN exitWith(codeOrOne(runCode), {})
                                 ELSE exitWith(0, {})
  /\ UNCHANGED <<spawnCalls, runCmd>>

\* The invocation starts: any arguments, in any directory
LaunchInit ==
  /\ pc = "main"
  /\ finalPort = NoPort
  /\ finalHost = NoHost
  /\ args \in {a \in ArgLists : ~(a.port = Undefined /\ a.host = Undefined)}
  /\ isNext \in BOOLEAN
  /\ timeout = DefaultTimeout
  /\ Fresh

\* The dev session's prober is followed in Spec
LaunchNext ==
  \/ Main
  \/ MenuChoice
  \/ PortAnswer
  \/ HostChoice
  \/ CustomHostAnswer
  \/ RunErrorHandler
  \/ RunChildDies
  \/ RunExitHandler
  \/ SpawnErrorHandler
  \/ Signal
  \/ ExitHandler
  \/ ChildDies

LaunchSpec == LaunchInit /\ [][LaunchNext]_vars

----------------------------------------------------------------------------
(* Properties *)

LastEvent == IF events = <<>> THEN "" ELSE events[Len(events)]
Exited == exitStatus # <<>>
SpawnFailed == devProcess \in {"failed", "errored"} \/ (pc = "dev" /\ devProcess = "none")
SpawnSucceeded == devProcess \in {"alive", "dead"}

\* C1: in a session that was Running, once SIGINT or SIGTERM has been handled
\* kill has been issued to the child and the session is Exited with status 0,
\* whether the child is still alive or has died with its exit event unobserved.
C1_SignalYieldsExitedZero ==
  (LastEvent \in Signals /\ trace[2] = "Running")
    => /\ killed
       /\ exitStatus = <<0>>
       /\ SessionState = "Exited"
       /\ "exit" \notin {events[i] : i \in 1..Len(events)}

C1_Witness ==
  /\ LastEvent = "SIGTERM"
  /\ devProcess = "alive"
  /\ killed
  /\ exitStatus = <<0>>
  /\ trace = <<"Starting", "Running", "ShuttingDown", "Exited">>

\* C2 (state part): the state that follows Starting is Running exactly when
\* spawn gave a child, and Exited with status 1 exactly when it did not; a
\* session whose spawn failed never was Running, and one whose spawn succeeded
\* never handles a spawn error.
C2_StartingBranches ==
  /\ trace[1] = "Starting"
  /\ SpawnFailed =>
       /\ \A i \in 1..Len(trace) : trace[i] # "Running"
       /\ Exited => (exitStatus = <<1>> /\ trace = <<"Starting", "Exited">>)
       /\ ~Exited => trace = <<"Starting">>
  /\ SpawnSucceeded =>
       /\ Len(trace) >= 2 /\ trace[2] = "Running"
       /\ \A i \in 1..Len(events) : events[i] \notin {"error", "throw"}
  /\ Len(trace) >= 2 => (SpawnFailed \/ SpawnSucceeded)

\* C2: from Starting exactly one of Running and Exited(1) is reached, and
\* Starting is always left.
C2_ExactlyOneOfRunningOrExited1 ==
  /\ []C2_StartingBranches
  /\ <>(SessionState # "Starting")

C2_Witness ==
  /\ devProcess = "errored"
  /\ exitStatus = <<1>>
  /\ trace = <<"Starting", "Exited">>
  /\ events = <<"error">>

\* C3 as stated: when the child cannot be spawned no probe connection attempt
\* is ever started, and the prober starts only once the session is Running.
C3_Original_NoProbingOnSpawnError ==
  /\ SpawnFailed => (attempts = 0 /\ probe = "idle")
  /\ attempts > 0 => (Len(trace) >= 2 /\ trace[2] = "Running")

\* C3 (amended): when the child cannot be spawned the session ends in Exited(1)
\* and no probe outcome is ever handled.  When the failure comes as the child's
\* 'error' event, waitForPort has already been called (devMode calls it right
\* after spawn, whatever the session state): exactly one connection attempt was
\* started, the promise stays pending, no retry is scheduled, the browser is not
\* opened and no probe warning is reported.  When spawn itself throws, no
\* attempt is started at all.
C3_SpawnErrorNoProbeOutcome ==
  /\ devProcess \in {"failed", "errored"} =>
       /\ attempts = 1
       /\ probe = "pending"
       /\ timer = "none"
       /\ browserOpens = 0
       /\ logged \cap {"probeWarn", "opening"} = {}
       /\ (devProcess = "errored") = Exited
       /\ Exited => exitStatus = <<1>>
  /\ (pc = "dev" /\ devProcess = "none") =>
       /\ attempts = 0
       /\ probe = "idle"
       /\ exitStatus = <<1>>

C3_Witness ==
  /\ devProcess = "errored"
  /\ exitStatus = <<1>>
  /\ attempts = 1
  /\ probe = "pending"
  /\ SessionState = "Exited"

\* The url the browser is opened with when the probe of host h, port p succeeds
ExpectedUrl(h, p) == "http://" \o h \o ":" \o ToString(p)

\* C4: the browser is opened at most once, never before a probe connection has
\* succeeded, and exactly once, with "http://<probed host>:<probed port>", once
\* the probe has succeeded in a session whose spawn succeeded.
C4_BrowserOpensExactlyOnce ==
  /\ browserOpens <= 1
  /\ browserOpens >= 1 => probe = "resolved"
  /\ (SpawnSucceeded /\ probe = "resolved") =>
       /\ browserOpens = 1
       /\ browserUrl = ExpectedUrl(probeHost, probePort)
       /\ "opening" \in logged

C4_Witness ==
  /\ devProcess = "alive"
  /\ finalHost = "127.0.0.1" /\ finalPort = 4000
  /\ probe = "resolved"
  /\ browserOpens = 1
  /\ browser = "spawned"
  /\ browserUrl = "http://127.0.0.1:4000"

\* Time from the first attempt to the moment the promise settled
Elapsed == settledAt - start

\* C5 as stated: with no listener, waitForPort fails with Timeout after an
\* elapsed time in [timeout, timeout + retryInterval).
C5_Original_TimeoutWithinOneInterval ==
  ~listening =>
    /\ probe # "resolved"
    /\ probe = "rejected" => (Elapsed >= timeout /\ Elapsed < timeout + interval)
    /\ probe = "pending" => now - start < timeout + interval

\* C5 (amended): with no listener, waitForPort never resolves and fails with
\* Timeout at the end of the first attempt that ends more than timeout ms after
\* the start: the elapsed time is greater than timeout and, with timers firing
\* on schedule, at most timeout + retry interval + per-attempt timeout
\* (timeout + 400 ms).
C5_TimeoutBounds ==
  ~listening =>
    /\ probe # "resolved"
    /\ probe = "rejected" =>
         (Elapsed > timeout /\ Elapsed <= timeout + interval + SocketTimeoutMs)
    /\ probe = "pending" => now - start <= timeout + interval + SocketTimeoutMs

C5_Witness ==
  /\ ~listening
  /\ probe = "rejected"
  /\ timeout = 400
  /\ Elapsed = timeout + interval + SocketTimeoutMs

\* Time from the binding of the listener to now, or to the settling
SinceBound == (IF probe = "pending" THEN now ELSE settledAt) - boundAt

\* C6 as stated: once a listener is bound while a probe is in progress,
\* waitForPort resolves successfully within one retry interval of the binding.
C6_Original_ResolvesWithinOneInterval ==
  (listening /\ boundInFlight) =>
    /\ probe # "rejected"
    /\ SinceBound <= interval

\* C6 (amended): once a listener is bound while a probe is in progress (and
\* attempts started after the binding connect within the per-attempt timeout),
\* waitForPort settles less than retry interval + two per-attempt timeouts
\* (600 ms) after the binding.  It resolves successfully, unless the attempt in
\* flight at the binding fails more than timeout ms after the start: then it
\* fails with Timeout, at most one per-attempt timeout after the binding.
C6_SettlesAfterBind ==
  (listening /\ boundInFlight) =>
    /\ SinceBound < interval + 2 * SocketTimeoutMs
    /\ probe = "rejected" =>
         (Elapsed > timeout /\ SinceBound <= SocketTimeoutMs)

C6_Witness ==
  /\ listening /\ boundInFlight
  /\ probe = "resolved"
  /\ finalPort = 65535
  /\ SinceBound > interval

\* A step that settles the probe (success, followed by the browser launch, or
\* timeout) or that handles the failure of the browser command
ProbeOutcomeStep ==
  \/ probe = "pending" /\ probe' \in {"resolved", "rejected"}
  \/ browser = "failed" /\ browser' # "failed"

\* C7: no probe outcome changes the session: the step that handles probe
\* success (with the browser launch, also when the browser command fails or
\* cannot be spawned) or probe timeout does not exit, does not kill the child,
\* raises nothing and leaves the session state as it was.
C7_ProbeOutcomesKeepSessionState ==
  [][ProbeOutcomeStep =>
       /\ exitStatus = <<>> /\ exitStatus' = <<>>
       /\ UNCHANGED <<devProcess, childCode, killed, sigHandlers, trace>>
       /\ "unexpected" \notin logged'
       /\ "uncaught" \notin logged']_vars

C7_Witness ==
  /\ probe = "rejected"
  /\ "probeWarn" \in logged
  /\ LastEvent = "probeTimeout"
  /\ exitStatus = <<>>
  /\ devProcess = "alive"
  /\ ~killed
  /\ SessionState = "Running"

\* C8: once the child's exit event has been handled the session is Exited and
\* the exit status is the child's code, 0 when the code is null; a warning was
\* reported when the code is a non-zero number.
C8_ChildExitCodePropagated ==
  LastEvent = "exit" =>
    /\ SessionState = "Exited"
    /\ exitStatus = (IF childCode = <<>> THEN <<0>> ELSE childCode)
    /\ (childCode # <<>> /\ childCode # <<0>>) => "devExitWarn" \in logged

C8_Witness ==
  /\ LastEvent = "exit"
  /\ childCode = <<1>>
  /\ exitStatus = <<1>>
  /\ "devExitWarn" \in logged
  /\ trace = <<"Starting", "Running", "Exited">>

\* C9: the exit status is non-zero only for a spawn error (status 1) or for a
\* child that exited on its own with a non-zero code (that code); signals,
\* probe success, probe timeout and browser launch failure leave it at 0.
C9_OnlySpawnErrorAndChildExitEscalate ==
  (Exited /\ exitStatus # <<0>>) =>
    \/ /\ SpawnFailed
       /\ LastEvent \in {"error", "throw"}
       /\ exitStatus = <<1>>
    \/ /\ SpawnSucceeded
       /\ LastEvent = "exit"
       /\ childCode \notin {<<>>, <<0>>}
       /\ exitStatus = childCode

C9_Witness ==
  /\ exitStatus = <<0>>
  /\ LastEvent = "SIGINT"
  /\ "probeWarn" \in logged
  /\ \E i \in 1..Len(events) : events[i] = "probeTimeout"

\* The host the prober and the browser use for a requested host
Rewritten(h) == IF h = "0.0.0.0" THEN "localhost" ELSE h

\* C10: the probed host and the host of the browser url are the requested
\* host, "localhost" standing in for "0.0.0.0"; the spawned command carries
\* the requested host unchanged.
C10_HostRewrittenForProbeAndUrlOnly ==
  /\ probe # "idle" =>
       /\ probeHost = Rewritten(finalHost)
       /\ probePort = finalPort
  /\ browserOpens > 0 =>
       browserUrl = "http://" \o Rewritten(finalHost) \o ":" \o ToString(finalPort)
  /\ pc = "dev" =>
       spawnCmd = "npx next dev --port " \o ToString(finalPort)
                    \o " --hostname " \o finalHost

C10_Witness ==
  /\ finalHost = "0.0.0.0"
  /\ probeHost = "localhost"
  /\ browserOpens = 1
  /\ browserUrl = "http://localhost:1"
  /\ spawnCmd = "npx next dev --port 1 --hostname 0.0.0.0"

\* C11: at most one server child has been spawned in a dev session; kill is
\* issued at most once, and only by the shutdown handler answering SIGINT or
\* SIGTERM: the number of kills is the number of signals handled.
C11_OneChildKilledOnlyByShutdown ==
  /\ spawnCalls <= 1
  /\ spawnCalls = 0 => devProcess = "none"
  /\ kills <= 1
  /\ killed <=> kills = 1
  /\ kills = Cardinality({i \in 1..Len(events) : events[i] \in Signals})
  /\ kills = 1 => (LastEvent \in Signals /\ "shutdown" \in logged /\ spawnCalls = 1)

C11_Witness ==
  /\ kills = 1
  /\ spawnCalls = 1
  /\ LastEvent = "SIGINT"
  /\ devProcess = "alive"
  /\ probe = "resolved"

TriggeringEvents == {"throw", "error", "exit"} \cup Signals
Triggers == {i \in 1..Len(events) : events[i] \in TriggeringEvents}

\* The status each triggering event gives the invocation
TriggerCode(e) ==
  IF e \in {"throw", "error"} THEN 1
  ELSE IF e = "exit" THEN (IF childCode = <<>> THEN 0 ELSE childCode[1])
  ELSE 0

C13_OneTrigger ==
  /\ Cardinality(Triggers) <= 1
  /\ Exited <=> Triggers # {}
  /\ Exited => /\ LastEvent \in TriggeringEvents
               /\ SessionState = "Exited"
               /\ exitStatus = <<TriggerCode(LastEvent)>>
  /\ ~Exited => SessionState \in {"Starting", "Running"}

\* C13: the exit status is decided by exactly one triggering event (spawn
\* error, child exit, SIGINT, SIGTERM): the first one handled moves the
\* session to Exited with its code (1, the child's code or 0, 0, 0), and
\* from an Exited state no callback takes any further step.
C13_ExitDecidedByOneEvent ==
  /\ []C13_OneTrigger
  /\ [][~Exited]_vars

C13_Witness ==
  /\ devProcess = "dead"
  /\ childCode = <<1>>
  /\ LastEvent = "SIGINT"
  /\ exitStatus = <<0>>
  /\ SessionState = "Exited"

Settled == probe \in {"resolved", "rejected"}

\* A step that ends a probe attempt: one socket is destroyed, and exactly one
\* of resolve, one retry timer of 200 ms, and reject follows
C15_AttemptEnds ==
  nSock' < nSock =>
    /\ nSock' = nSock - 1
    /\ \/ probe' = "resolved" /\ nTimer' = 0 /\ listening
       \/ /\ probe' = "pending"
          /\ nTimer' = 1
          /\ timerAt' = now + interval
          /\ now - start <= timeout
       \/ probe' = "rejected" /\ nTimer' = 0 /\ now - start > timeout

\* C15: every probe attempt ends in a resolve, in one retry scheduled 200 ms
\* later or in a reject; a settled probe keeps its outcome; and with time
\* passing and due callbacks run, waitForPort eventually settles.
C15_SettlesOnceAndEventually ==
  /\ [][C15_AttemptEnds /\ (Settled => probe' = probe)]_vars
  /\ <>Settled

C15_Witness ==
  /\ probe = "rejected"
  /\ timeout = DefaultTimeout
  /\ ~listening
  /\ attempts = MaxCounted
  /\ now > DefaultTimeout

\* C16: in the probe loop at most one probe socket is open and at most one
\* retry timer is pending, never both; no socket outlives its attempt; and
\* once waitForPort has settled neither a socket nor a timer is left.
C16_OneSocketOrOneTimer ==
  /\ nSock \in 0..1
  /\ nTimer \in 0..1
  /\ nSock + nTimer <= 1
  /\ sock = "none" => nSock = 0
  /\ timer = "none" => nTimer = 0
  /\ Settled => (nSock = 0 /\ nTimer = 0)

C16_Witness ==
  /\ probe = "resolved"
  /\ boundInFlight
  /\ attempts = MaxCounted
  /\ nSock = 0
  /\ nTimer = 0

C17_AfterExited ==
  /\ SessionState = "Exited" =>
       /\ nSock' <= nSock
       /\ nTimer' <= nTimer
       /\ attempts' = attempts
       /\ "probeWarn" \in logged' => "probeWarn" \in logged
       /\ browserOpens' = browserOpens
  /\ browserOpens' # browserOpens =>
       (SessionState = "Running" /\ SessionState' = "Running")

\* C17: once the session is Exited no probe socket or retry timer is left, no
\* probe attempt is started, no probe warning is reported and the browser is
\* not opened; the browser is opened only in a step taken while Running.
C17_NoProbeOrBrowserAfterExited ==
  /\ [](SessionState = "Exited" => (nSock = 0 /\ nTimer = 0))
  /\ [][C17_AfterExited]_vars

C17_Witness ==
  /\ SessionState = "Exited"
  /\ LastEvent = "exit"
  /\ probe = "pending"
  /\ attempts = MaxCounted
  /\ browserOpens = 0

\* C18: the "Dev server exited with code" warning is reported only when the
\* overall exit status is not 0, whatever code the exit event carries.
C18_WarningOnlyWithNonZeroStatus ==
  ("devExitWarn" \in logged /\ Exited) => exitStatus # <<0>>

\* The port and host texts of PortTexts and HostTexts that are a port in
\* [1, 65535] and a host that is not blank
GoodPortTexts == { <<"4", "0", "0", "0">>, <<"1">>, <<"6", "5", "5", "3", "5">> }
GoodHostTexts == { <<"1", "2", "7", ".", "0", ".", "0", ".", "1">>,
                   <<"0", ".", "0", ".", "0", ".", "0">>,
                   <<" ", "m", "y", ".", "h", "o", "s", "t", " ">> }
PortArgOk ==
  args.port = Absent \/ (args.port.kind = "text" /\ args.port.text \in GoodPortTexts)
HostArgOk ==
  args.host = Absent \/ (args.host.kind = "text" /\ args.host.text \in GoodHostTexts)

\* An invocation with arguments that does not ask for the help or the version
NonInteractive == args # NoArgs /\ ~args.help /\ ~args.version

\* C12: a dev server child is spawned only with an integer port in
\* [1, 65535] and a host that is not empty, whether they come from --port and
\* --host or from the prompts; a port accepted by the prompt is in range; and
\* an invocation with arguments whose --port or --host value is not such a
\* port or host has exit status 1 when main has run, without any spawn.
C12_SpawnOnlyWithValidPortAndHost ==
  /\ spawnCmd # "" =>
       /\ finalPort \in 1..65535
       /\ finalHost \in {"127.0.0.1", "0.0.0.0", "my.host"}
       /\ spawnCmd = "npx next dev --port " \o ToString(finalPort)
                       \o " --hostname " \o finalHost
  /\ pc \in {"host", "custom"} => finalPort \in 1..65535
  /\ (NonInteractive /\ pc # "main" /\ ~(PortArgOk /\ HostArgOk)) =>
       (exitStatus = <<1>> /\ spawnCalls = 0 /\ spawnCmd = "")

C12_Witness ==
  /\ args.port = Given(<<"6", "5", "5", "3", "5">>)
  /\ args.host = Given(<<" ", "m", "y", ".", "h", "o", "s", "t", " ">>)
  /\ spawnCmd = "npx next dev --port 65535 --hostname my.host"
  /\ devProcess = "alive"

\* C14: in build and start modes, from a flag or from the menu, the exit
\* status is 1 when the child command could not be spawned, the child's exit
\* code when that is not 0, and 0 only when the child has exited with code 0.
C14_BuildStartExitContract ==
  (runCmd # "" /\ Exited) =>
    /\ runProcess \in {"none", "failed", "errored"} => exitStatus = <<1>>
    /\ (runProcess \in {"dead", "exited"} /\ runCode \notin {<<>>, <<0>>}) =>
         exitStatus = runCode
    /\ exitStatus = <<0>> => (runProcess = "exited" /\ runCode = <<0>>)

\* C19: "Build completed successfully" is reported only after the build
\* child has exited with code 0.
C19_BuildSuccessOnlyAfterExitZero ==
  "buildSuccess" \in logged => (runProcess = "exited" /\ runCode = <<0>>)

ExactlyOneMode ==
  \/ args.dev /\ ~args.build /\ ~args.start
  \/ ~args.dev /\ args.build /\ ~args.start
  \/ ~args.dev /\ ~args.build /\ args.start
PortHostOnlyWithDev == (args.port # Absent \/ args.host # Absent) => args.dev
WellFormedArgs == ExactlyOneMode /\ PortHostOnlyWithDev /\ PortArgOk /\ HostArgOk

\* C20: with arguments (and neither the help nor the version asked for) a
\* child command is spawned only when exactly one of --dev, --build, --start
\* is given, --port and --host come with --dev only and their values are
\* valid, and the child is the one of that mode; with any other arguments
\* the invocation has exit status 1 when main has run, without any spawn.
C20_SpawnOnlyForOneMode ==
  NonInteractive =>
    /\ spawnCalls > 0 =>
         /\ spawnCalls = 1
         /\ WellFormedArgs
         /\ isNext
         /\ args.dev => (spawnCmd # "" /\ runCmd = "")
         /\ args.build => (spawnCmd = "" /\ runCmd = "npm run build")
         /\ args.start => (spawnCmd = "" /\ runCmd = "npm start")
    /\ (pc # "main" /\ ~WellFormedArgs) =>
         (exitStatus = <<1>> /\ spawnCalls = 0)

C20_Witness ==
  /\ NonInteractive
  /\ args.dev
  /\ args.build
  /\ PortArgOk
  /\ HostArgOk
  /\ isNext
  /\ "manyModes" \in logged
  /\ exitStatus = <<1>>
  /\ spawnCalls = 0

====
